---- MODULE Spec2Model ----
(***************************************************************************)
(* Offline write buffer of the repair-case application                     *)
(* (src/app/backend/helpers/buffer.py): the JSON queue file, its atomic    *)
(* save, its load with quarantine, the replay of queued entries against    *)
(* the cases table, and the process crashes and I/O failures around them.  *)
(***************************************************************************)
EXTENDS Integers, Sequences, FiniteSets, TLC

(***************************************************************************)
(* Bounds of the model.                                                    *)
(***************************************************************************)
\* enqueue_write calls in one behaviour
MaxEnq == 2
\* sync_buffer_once passes in one behaviour
MaxSync == 2
\* faults in one behaviour: process crashes and failed I/O steps of _save_buffer
MaxFaults == 1
\* writes to the queue file by something other than this program
MaxForeign == 2
\* tokens the buffered writer holds back before it spills to the file
BufferSize == 8

(***************************************************************************)
(* Python values.  Every value is a record tagged by t, so that values of  *)
(* different Python types are comparable.                                  *)
(***************************************************************************)
PyStr(s) == [t |-> "str", s |-> s]
PyInt(n) == [t |-> "int", n |-> n]
PyNone == [t |-> "null"]
\* a dict with string keys and scalar values: d is a function key -> value
PyDict(d) == [t |-> "dict", d |-> d]
\* a list of values
PyList(l) == [t |-> "list", l |-> l]

IsScalar(v) == v.t \in {"str", "int", "null"}

\* bool(v) of Python
Truthy(v) ==
    CASE v.t = "null" -> FALSE
      [] v.t = "str"  -> v.s # ""
      [] v.t = "int"  -> v.n # 0
      [] v.t = "dict" -> DOMAIN v.d # {}
      [] v.t = "list" -> v.l # <<>>

\* d.get(k) on the function d
Get(d, k) == IF k \in DOMAIN d THEN d[k] ELSE PyNone

\* d[k] = v on the function d
Put(d, k, v) == [x \in DOMAIN d \cup {k} |-> IF x = k THEN v ELSE d[x]]

\* a or b of Python
PyOr(a, b) == IF Truthy(a) THEN a ELSE b

\* the items of a sequence
Range(f) == {f[k] : k \in DOMAIN f}

(***************************************************************************)
(* Texts of the users table.  A text is a sequence of symbols: the comma,  *)
(* the space, and words (runs of other characters).                        *)
(***************************************************************************)
COMMA == ","
SPACE == " "

\* ",".join(names)
RECURSIVE join(_)
join(names) ==
    IF names = <<>> THEN <<>>
    ELSE IF Len(names) = 1 THEN <<names[1]>>
    ELSE <<names[1], COMMA>> \o join(Tail(names))

\* text.split(","), with cur the part read so far
RECURSIVE split_from(_, _)
split_from(text, cur) ==
    IF text = <<>> THEN <<cur>>
    ELSE IF Head(text) = COMMA THEN <<cur>> \o split_from(Tail(text), <<>>)
    ELSE split_from(Tail(text), Append(cur, Head(text)))

split(text) == split_from(text, <<>>)

RECURSIVE lstrip(_)
lstrip(part) ==
    IF part # <<>> /\ Head(part) = SPACE THEN lstrip(Tail(part)) ELSE part

RECURSIVE rstrip(_)
rstrip(part) ==
    IF part # <<>> /\ part[Len(part)] = SPACE
    THEN rstrip(SubSeq(part, 1, Len(part) - 1)) ELSE part

\* c.strip()
strip(part) == rstrip(lstrip(part))

\* the string a part of a text spells
RECURSIVE spell(_)
spell(part) == IF part = <<>> THEN "" ELSE Head(part) \o spell(Tail(part))

\* [c.strip() for c in csv.split(",") if c.strip()]
stripped_parts(csv) ==
    LET parts == split(csv)
        kept == SelectSeq([k \in DOMAIN parts |-> strip(parts[k])],
                          LAMBDA c : c # <<>>)
    IN  [k \in DOMAIN kept |-> spell(kept[k])]

ALL_CLINICS_SENTINEL == <<"ALL">>

\* clinics_of_user: None for all clinics, else the list of names
clinics_of_user(r, csv) ==
    IF r = "Admin" \/ csv = ALL_CLINICS_SENTINEL THEN PyNone
    ELSE LET cl == stripped_parts(csv)
         IN  IF cl = <<>> THEN PyNone
             ELSE PyList([k \in DOMAIN cl |-> PyStr(cl[k])])

(***************************************************************************)
(* JSON text.  A text is a sequence of tokens: the brackets, a key (a      *)
(* member name with its colon) and the scalars.  Commas and white space    *)
(* carry no information and are left out.                                  *)
(***************************************************************************)
LB == [t |-> "["]
RB == [t |-> "]"]
LC == [t |-> "{"]
RC == [t |-> "}"]
Key(k) == [t |-> "key", s |-> k]

\* The order in which the keys of a dict are written.  Python writes them in
\* insertion order; the order of the members does not change the dict that
\* json.loads builds from them, so one fixed order stands for all of them.
KeyOrder ==
    << "type", "id", "clinic", "device_name", "device", "wave_number",
       "submitter", "username", "user", "owner", "service_provider",
       "date_returned", "status", "reason", "date_submitted", "notes",
       "closed_by", "deleted_by", "hash", "created_by" >>

RECURSIVE DumpMembers(_, _)
DumpMembers(d, i) ==
    IF i > Len(KeyOrder) THEN <<>>
    ELSE (IF KeyOrder[i] \in DOMAIN d
          THEN << Key(KeyOrder[i]), d[KeyOrder[i]] >>
          ELSE <<>>) \o DumpMembers(d, i + 1)

\* json.dump of a scalar or of a dict
DumpItem(v) ==
    IF v.t = "dict" THEN <<LC>> \o DumpMembers(v.d, 1) \o <<RC>> ELSE <<v>>

RECURSIVE DumpItems(_)
DumpItems(l) ==
    IF l = <<>> THEN <<>> ELSE DumpItem(Head(l)) \o DumpItems(Tail(l))

\* json.dump(entries, tmp): the text of a list of items
DumpDropsNulls(l) ==
    <<LB>> \o SelectSeq(DumpItems(l), LAMBDA tok : tok.t # "null") \o <<RB>>
json_dump(l) == <<LB>> \o DumpItems(l) \o <<RB>>

\* The parser.  Each Parse* operator returns [ok, v, next]: whether the text
\* parses from position i, the value, and the position after it.
ParseFail == [ok |-> FALSE, v |-> PyNone, next |-> 0]

RECURSIVE ParseMembers(_, _, _)
ParseMembers(text, i, acc) ==
    IF i > Len(text) THEN ParseFail
    ELSE IF text[i].t = "}" THEN [ok |-> TRUE, v |-> PyDict(acc), next |-> i + 1]
    ELSE IF text[i].t = "key" /\ i + 1 <= Len(text) /\ IsScalar(text[i + 1])
         THEN ParseMembers(text, i + 2, Put(acc, text[i].s, text[i + 1]))
    ELSE ParseFail

EmptyDict == [k \in {} |-> PyNone]

RECURSIVE ParseItems(_, _, _)
ParseItems(text, i, acc) ==
    IF i > Len(text) THEN ParseFail
    ELSE IF text[i].t = "]" THEN [ok |-> TRUE, v |-> PyList(acc), next |-> i + 1]
    ELSE IF IsScalar(text[i]) THEN ParseItems(text, i + 1, Append(acc, text[i]))
    ELSE IF text[i].t = "{"
         THEN LET m == ParseMembers(text, i + 1, EmptyDict)
              IN  IF m.ok THEN ParseItems(text, m.next, Append(acc, m.v))
                  ELSE ParseFail
    ELSE ParseFail

ParseValue(text) ==
    IF text = <<>> THEN ParseFail
    ELSE IF IsScalar(text[1]) THEN [ok |-> TRUE, v |-> text[1], next |-> 2]
    ELSE IF text[1].t = "{" THEN ParseMembers(text, 2, EmptyDict)
    ELSE IF text[1].t = "[" THEN ParseItems(text, 2, <<>>)
    ELSE ParseFail

\* json.loads(text): the value, or a failure when the text is no JSON document
\* or is followed by more text
json_loads(text) ==
    LET r == ParseValue(text)
    IN  IF r.ok /\ r.next = Len(text) + 1
        THEN [ok |-> TRUE, v |-> r.v]
        ELSE [ok |-> FALSE, v |-> PyNone]

(***************************************************************************)
(* Payloads handed to enqueue_write.                                       *)
(***************************************************************************)
\* CreateTab.on_save: a complete insert
InsFull ==
    [k \in {"type", "clinic", "device_name", "submitter", "status"} |->
        CASE k = "type"        -> PyStr("insert_case")
          [] k = "clinic"      -> PyStr("Neuro")
          [] k = "device_name" -> PyStr("Endoscope")
          [] k = "submitter"   -> PyStr("A")
          [] k = "status"      -> PyStr("In Reparatur")]

\* an insert that carries only clinic, device_name and submitter
InsMin == [k \in DOMAIN InsFull \ {"status"} |-> InsFull[k]]

\* an insert without clinic
InsNoClinic == [k \in DOMAIN InsFull \ {"clinic"} |-> InsFull[k]]

\* OpenTab._on_done_clicked: complete case 1
UpdDone ==
    [k \in {"type", "id", "date_returned", "status", "closed_by"} |->
        CASE k = "type"          -> PyStr("update_case")
          [] k = "id"            -> PyInt(1)
          [] k = "date_returned" -> PyStr("2026-01-01")
          [] k = "status"        -> PyStr("Abgeschlossen")
          [] k = "closed_by"     -> PyStr("A")]

\* delete case 1, by nobody in particular
DelCase ==
    [k \in {"type", "id", "deleted_by"} |->
        CASE k = "type"       -> PyStr("delete_case")
          [] k = "id"         -> PyInt(1)
          [] k = "deleted_by" -> PyNone]

Payloads == {InsFull, InsMin, InsNoClinic, UpdDone, DelCase}

\* entries of a type _apply_buffer_entry does not know
OfType(ty) == [k \in {"type", "id"} |->
                 CASE k = "type" -> PyStr(ty) [] k = "id" -> PyInt(1)]
KnownTypes == {"insert_case", "update_case", "delete_case"}
OddTypes == {"export_case", "busy", "Locked"}
TypePayloads == {InsFull} \cup {OfType(ty) : ty \in OddTypes}

(***************************************************************************)
(* _normalize_entry                                                        *)
(***************************************************************************)
NormalizeClearsActor(e) ==
    IF Get(e, "type") = PyStr("insert_case") /\ ~Truthy(Get(e, "created_by"))
    THEN Put(e, "created_by",
             PyOr(Get(e, "submitter"),
                  PyOr(Get(e, "username"), PyOr(Get(e, "user"), Get(e, "owner")))))
    ELSE IF Get(e, "type") = PyStr("insert_case")
    THEN Put(e, "created_by", PyNone)
    ELSE e
normalize_entry(e) ==
    IF Get(e, "type") = PyStr("insert_case") /\ ~Truthy(Get(e, "created_by"))
    THEN Put(e, "created_by",
             PyOr(Get(e, "submitter"),
                  PyOr(Get(e, "username"), PyOr(Get(e, "user"), Get(e, "owner")))))
    ELSE e

(***************************************************************************)
(* State.                                                                  *)
(***************************************************************************)
VARIABLES
    \* the file system
    live,        \* the queue file buffer_queue.json
    bak,         \* the quarantine file buffer_queue.json.bak
    tmp,         \* the temporary file of the running _save_buffer
    dirExists,   \* whether the resources directory exists
    \* the primary store
    cols,        \* column names of table cases
    cases,       \* rows of table cases
    nextId,      \* next AUTOINCREMENT id of table cases
    audit_log,   \* rows of table audit_log
    \* the process
    pc,          \* position of the process
    op,          \* the running call: "none", "enqueue" or "sync"
    entries,     \* the value _load_buffer returned
    i,           \* index of the sync loop (1-based)
    ok,          \* ok of sync_buffer_once
    failed,      \* failed of sync_buffer_once
    pending,     \* text of the running json.dump that is not in tmp yet
    \* history, for stating the properties
    ret,         \* outcome of the last call
    loaded,      \* items the last sync pass loaded
    log,         \* outcome of each apply of the last sync pass
    load,        \* what the last _load_buffer met and returned
    origin,      \* who wrote the content of live: "program" or "foreign"
    liveTags,    \* for each item of live, the enqueue_write call it stems from
    entryTags,   \* the same for entries
    failedTags,  \* the same for failed
    applied,     \* per enqueue_write call, how often its entry was applied
    permFailed,  \* enqueue_write calls whose entry failed permanently
    persisted,   \* enqueue_write calls whose entry reached the queue file
    returned,    \* enqueue_write calls that returned
    enqueued,    \* the payload of each enqueue_write call so far
    nSync, nFaults, nForeign,
    liveBefore,  \* the queue file when the last call began
    casesBefore, \* the rows of table cases when the last call began
    storeOps,    \* per apply of the last sync pass, the statements it issued
    attempted,   \* the items the last sync pass handed to _apply_buffer_entry
    \* the main window and its tabs
    win,         \* "closed", "syncing" (start sync under way) or "open"
    session,     \* user_id, role, clinics_csv and username of the login
    lastUi,      \* the last handler of a tab that ran, and how it ended
    clinics,     \* table clinics: the names
    openTable,   \* the case rows OpenTab shows
    doneTable,   \* the case rows DoneTab shows
    users,       \* table users: id -> role and clinics
    userTable,   \* the user rows AdminTab shows
    timers,      \* the QTimer.singleShot(0, ...) callbacks that have not run
    \* a function under study: its argument and the results of applying it
    arg, results,
    \* the login
    login_attempts, \* table login_attempts: per user, the failed attempts of
                    \* the last LOCKOUT_MINUTES minutes and the older ones
    lastAuth,       \* the last authenticate call and what it returned
    nLogins         \* authenticate calls so far

fileVars == <<live, bak, tmp, dirExists>>
dbVars == <<cols, cases, nextId, audit_log>>
procVars == <<pc, op, entries, i, ok, failed, pending>>
passVars == <<loaded, log, liveBefore, casesBefore, storeOps, attempted>>
tabVars == <<win, session, lastUi, clinics, openTable, doneTable, users,
             userTable, timers>>
funVars == <<arg, results>>
loginVars == <<login_attempts, lastAuth, nLogins>>
tagVars == <<liveTags, entryTags, failedTags>>
fateVars == <<applied, permFailed, persisted, returned>>
countVars == <<enqueued, nSync, nFaults, nForeign>>
vars == <<fileVars, dbVars, procVars, passVars, tagVars, fateVars, countVars,
          ret, load, origin, tabVars, funVars, loginVars>>

\* a file: absent, or present with a text
Absent == [exists |-> FALSE, text |-> <<>>]
File(text) == [exists |-> TRUE, text |-> text]

\* the temporary file: what the operating system holds of it, and whether
\* that has been forced to the disk
NoTmp == [exists |-> FALSE, text |-> <<>>, synced |-> FALSE]

(***************************************************************************)
(* The primary store: table cases of SCHEMA.                               *)
(***************************************************************************)
StandardCols ==
    {"id", "clinic", "device_name", "wave_number", "submitter",
     "service_provider", "status", "reason", "date_submitted", "date_returned",
     "created_by", "closed_by", "notes"}

NotNullCols == {"clinic", "device_name", "status"}

STATUS_OPEN == "In Reparatur"
STATUS_DONE == "Abgeschlossen"

\* the value of a column the INSERT does not name
ColumnDefault(c) == IF c = "status" THEN PyStr(STATUS_OPEN) ELSE PyNone

\* NOT NULL and CHECK (status IN (...)) of a row
RowAllowed(row) ==
    /\ \A c \in NotNullCols \cap DOMAIN row : row[c] # PyNone
    /\ "status" \in DOMAIN row =>
          row["status"] \in {PyNone, PyStr(STATUS_OPEN), PyStr(STATUS_DONE)}

\* an exception: its class and the parts of its message
Exc(cls, msg) == [cls |-> cls, msg |-> msg]
NoExc == Exc("", <<>>)

\* str(v) of Python, for the values that reach a message
StrOf(v) ==
    CASE v.t = "str"  -> v.s
      [] v.t = "null" -> "None"
      [] OTHER        -> "<value>"

\* _cases_columns
cases_columns == cols

\* the statements _apply_buffer_entry issues on the store handle
PRAGMA_COLS == "PRAGMA table_info(cases)"
INSERT_CASE == "INSERT INTO cases"
UPDATE_CASE == "UPDATE cases"
DELETE_CASE == "DELETE FROM cases"
SELECT_MASTER == "SELECT name FROM sqlite_master"
INSERT_AUDIT == "INSERT INTO audit_log"

\* the outcome of one _apply_buffer_entry: the statements issued on the
\* handle, the exception raised (NoExc when it returns) and the store
\* afterwards
Outcome(ops, exc, rows, seq, audit) ==
    [ops |-> ops, exc |-> exc, cases |-> rows, nextId |-> seq,
     audit_log |-> audit]
\* an exception after the statements ops, with the store unchanged
Raise(ops, cls, msg) == Outcome(ops, Exc(cls, msg), cases, nextId, audit_log)
\* the last statement of ops met a store locked by another connection
Locked(ops) == Raise(ops, "OperationalError", <<"database is locked">>)

\* _table_exists, on the tables SCHEMA creates
Tables == {"users", "cases", "clinics", "audit_log"}
table_exists(name) == name \in Tables

\* branch insert_case of _apply_buffer_entry; busy: the store is locked by
\* another connection when the INSERT is executed
apply_insert(entry, busy) ==
    LET cs == cases_columns
        device_col == IF "device_name" \in cs THEN "device_name"
                      ELSE IF "device" \in cs THEN "device" ELSE ""
        desired == {"clinic", device_col, "wave_number", "submitter",
                    "service_provider", "status", "reason", "date_submitted",
                    "date_returned", "notes", "created_by"}
        column_names == desired \cap cs
        val(c) == IF c = device_col
                  THEN (IF Get(entry, "device_name") # PyNone
                        THEN Get(entry, "device_name") ELSE Get(entry, "device"))
                  ELSE Get(entry, c)
        row == [c \in cs |->
                  IF c = "id" THEN PyInt(nextId)
                  ELSE IF c \in column_names THEN val(c) ELSE ColumnDefault(c)]
    IN  IF device_col = ""
        THEN Raise(<<PRAGMA_COLS>>, "RuntimeError",
                   <<"Tabelle 'cases' hat weder 'device_name' noch 'device'.">>)
        ELSE IF column_names = {}
        THEN Raise(<<PRAGMA_COLS>>, "RuntimeError", <<"Kein geeignetes Spaltenziel">>)
        ELSE IF busy THEN Locked(<<PRAGMA_COLS, INSERT_CASE>>)
        ELSE IF ~RowAllowed(row)
        THEN Raise(<<PRAGMA_COLS, INSERT_CASE>>, "IntegrityError",
                   <<"constraint failed">>)
        ELSE Outcome(<<PRAGMA_COLS, INSERT_CASE>>, NoExc,
                     cases \cup {row}, nextId + 1, audit_log)

\* branch update_case of _apply_buffer_entry
apply_update(entry, busy) ==
    LET cs == cases_columns
        set_cols ==
            {c \in {"status", "date_returned"} : c \in cs /\ c \in DOMAIN entry}
            \cup (IF "closed_by" \in cs /\ Get(entry, "closed_by") # PyNone
                  THEN {"closed_by"} ELSE {})
        upd(row) == IF row["id"] = entry["id"]
                    THEN [c \in DOMAIN row |->
                            IF c \in set_cols THEN Get(entry, c) ELSE row[c]]
                    ELSE row
        rows == {upd(row) : row \in cases}
    IN  IF set_cols = {}
        THEN Outcome(<<PRAGMA_COLS>>, NoExc, cases, nextId, audit_log)
        ELSE IF "id" \notin DOMAIN entry
        THEN Raise(<<PRAGMA_COLS>>, "KeyError", <<"'id'">>)
        ELSE IF busy THEN Locked(<<PRAGMA_COLS, UPDATE_CASE>>)
        ELSE IF \E row \in rows : ~RowAllowed(row)
        THEN Raise(<<PRAGMA_COLS, UPDATE_CASE>>, "IntegrityError",
                   <<"constraint failed">>)
        ELSE Outcome(<<PRAGMA_COLS, UPDATE_CASE>>, NoExc, rows, nextId, audit_log)

\* branch delete_case of _apply_buffer_entry; audit_fails: the INSERT into
\* audit_log raises (disk full, a table of another layout), and the
\* transaction of the with block is rolled back
apply_delete(entry, busy, audit_fails) ==
    IF "id" \notin DOMAIN entry THEN Raise(<<>>, "KeyError", <<"'id'">>)
    ELSE IF busy THEN Locked(<<DELETE_CASE>>)
    ELSE IF audit_fails /\ table_exists("audit_log")
    THEN Raise(<<DELETE_CASE, SELECT_MASTER, INSERT_AUDIT>>, "OperationalError",
               <<"database or disk is full">>)
    ELSE Outcome(IF table_exists("audit_log")
                 THEN <<DELETE_CASE, SELECT_MASTER, INSERT_AUDIT>>
                 ELSE <<DELETE_CASE, SELECT_MASTER>>,
                 NoExc,
                 {row \in cases : row["id"] # entry["id"]},
                 nextId,
                 IF table_exists("audit_log")
                 THEN Append(audit_log,
                             [action |-> "case_delete", entity |-> "case",
                              entity_id |-> entry["id"],
                              details |-> Get(entry, "deleted_by")])
                 ELSE audit_log)

\* _apply_buffer_entry(conn, e) for an item e of the loaded queue
apply_buffer_entry(e, busy, audit_fails) ==
    IF e.t # "dict"
    THEN Raise(<<>>, "TypeError", <<"cannot convert to dict">>)
    ELSE LET entry == normalize_entry(e.d)
             etype == Get(entry, "type")
         IN  IF etype = PyStr("insert_case") THEN apply_insert(entry, busy)
             ELSE IF etype = PyStr("update_case") THEN apply_update(entry, busy)
             ELSE IF etype = PyStr("delete_case") THEN apply_delete(entry, busy, audit_fails)
             ELSE Raise(<<>>, "ValueError",
                        <<"Unbekannter Buffer-Typ: ", StrOf(etype)>>)

\* the message parts of the model that contain "locked" or "busy"
LockedOrBusyTexts == {"database is locked", "locked", "busy"}

\* str.lower() on the message parts of the model
Lower(part) == IF part = "Locked" THEN "locked" ELSE part

\* msg = str(ex).lower(); "locked" in msg or "busy" in msg
is_locked_or_busy(exc) ==
    \E k \in DOMAIN exc.msg : Lower(exc.msg[k]) \in LockedOrBusyTexts

(***************************************************************************)
(* Initial state: no queue file, an empty cases table, an idle process,    *)
(* the seed users and clinics.                                             *)
(***************************************************************************)
EnqIds == 1 .. MaxEnq

Result(o, st, a, r, cls) ==
    [op |-> o, st |-> st, applied |-> a, remaining |-> r, exc |-> cls]
NoResult == Result("none", "none", 0, 0, "")
NoLoad == [src |-> "none", text |-> <<>>, result |-> PyList(<<>>)]

\* SEED_USERS: username, role and clinics of the users a new database holds
User(name, r, csv) == [username |-> name, role |-> r, clinics |-> csv]
SEED_USERS ==
    [u \in 1 .. 3 |->
        CASE u = 1 -> User("admin", "Admin", ALL_CLINICS_SENTINEL)
          [] u = 2 -> User("tech", "Techniker", <<"Neuro">>)
          [] u = 3 -> User("view", "Viewer", <<"Viszeral">>)]

SEED_CLINICS == {"Neuro", "Viszeral", "Thorax", "Ortho"}

NoSession == [user_id |-> 0, role |-> "", clinics_csv |-> <<>>, username |-> ""]
NoForm == [clinic |-> "", device |-> ""]
NoUi == [handler |-> "none", path |-> "none", id |-> 0, form |-> NoForm]
NoUserRows == [u \in {} |-> User("", "", <<>>)]
NoAttempts == [recent |-> 0, old |-> 0]
NoAuth == [user_id |-> 0, correct |-> FALSE, recent |-> 0, result |-> PyNone]

\* the state before the program has run: no queue file, the tables SCHEMA
\* and the seed create, no window
Start ==
    /\ liveBefore = Absent /\ casesBefore = {} /\ storeOps = <<>>
    /\ attempted = <<>>
    /\ win = "closed" /\ session = NoSession /\ lastUi = NoUi
    /\ clinics = SEED_CLINICS /\ users = SEED_USERS
    /\ openTable = {} /\ doneTable = {} /\ userTable = NoUserRows
    /\ timers = <<>>
    /\ login_attempts = [u \in DOMAIN SEED_USERS |-> NoAttempts]
    /\ lastAuth = NoAuth /\ nLogins = 0
    /\ live = Absent /\ bak = Absent /\ tmp = NoTmp /\ dirExists = FALSE
    /\ cols = StandardCols /\ cases = {} /\ nextId = 1 /\ audit_log = <<>>
    /\ pc = "idle" /\ op = "none" /\ entries = PyList(<<>>)
    /\ i = 1 /\ ok = 0 /\ failed = <<>> /\ pending = <<>>
    /\ ret = NoResult /\ loaded = <<>> /\ log = <<>> /\ load = NoLoad
    /\ origin = "program"
    /\ liveTags = <<>> /\ entryTags = <<>> /\ failedTags = <<>>
    /\ applied = [t \in EnqIds |-> 0]
    /\ permFailed = {} /\ persisted = {} /\ returned = {}
    /\ enqueued = <<>> /\ nSync = 0 /\ nFaults = 0 /\ nForeign = 0

Init == Start /\ arg = EmptyDict /\ results = <<>>

\* the locals of a call are gone when it returns, raises or the process dies
Idle ==
    /\ pc' = "idle" /\ op' = "none" /\ entries' = PyList(<<>>)
    /\ i' = 1 /\ ok' = 0 /\ failed' = <<>> /\ pending' = <<>>
    /\ entryTags' = <<>> /\ failedTags' = <<>>

TagAt(tags, k) == IF k \in DOMAIN tags THEN tags[k] ELSE 0

(***************************************************************************)
(* _load_buffer                                                            *)
(***************************************************************************)
\* p.rename(p.with_suffix(".json.bak")): on POSIX an existing target is
\* replaced; on Windows the rename raises FileExistsError, which is swallowed
RenameOutcomes == IF bak.exists THEN {TRUE, FALSE} ELSE {TRUE}

\* what the load meets at the live path
LiveKind ==
    IF ~live.exists THEN "absent"
    ELSE IF ~json_loads(live.text).ok THEN "unparsable"
    ELSE IF json_loads(live.text).v.t # "list" THEN "nonlist"
    ELSE IF origin = "foreign" THEN "tampered"
    ELSE "saved"

\* the value returned and the files afterwards, for the files lv (the queue
\* file) and bk (the quarantine file)
load_from(lv, bk, renamed) ==
    IF ~lv.exists
    THEN [value |-> PyList(<<>>), live |-> lv, bak |-> bk]
    ELSE LET r == json_loads(lv.text)
         IN  IF r.ok
             THEN [value |-> r.v, live |-> lv, bak |-> bk]
             ELSE IF renamed
             THEN [value |-> PyList(<<>>), live |-> Absent, bak |-> File(lv.text)]
             ELSE [value |-> PyList(<<>>), live |-> lv, bak |-> bk]

load_buffer(renamed) == load_from(live, bak, renamed)

\* the enqueue_write calls the items of a loaded value stem from
LoadTags(value) ==
    IF value.t # "list" THEN <<>>
    ELSE [k \in 1 .. Len(value.l) |->
            IF origin = "program" THEN TagAt(liveTags, k) ELSE 0]

Loading(L) ==
    /\ live' = L.live
    /\ bak' = L.bak
    /\ load' = [src |-> LiveKind, text |-> live.text, result |-> L.value]
    /\ origin' = IF L.live = live THEN origin ELSE "program"
    /\ liveTags' = IF L.live = live THEN liveTags ELSE <<>>

(***************************************************************************)
(* enqueue_write                                                           *)
(***************************************************************************)
\* entries.append(payload)
AppendReplaces(list, payload) == <<payload>>
list_append(list, payload) == Append(list, payload)

\* dict(payload): _normalize_entry works on a copy, so the object of the
\* caller is after the call what it was before
CallerObjectNormalized(p) == normalize_entry(p)
caller_object(p) == p

\* lines 84-86: normalize a copy of the payload, load the queue, append;
\* _save_buffer follows in the save steps
enqueue_write(p) ==
    /\ pc = "idle"
    /\ Len(enqueued) < MaxEnq
    /\ enqueued' = Append(enqueued, caller_object(p))
    /\ \E renamed \in RenameOutcomes :
         LET L == load_buffer(renamed)
             payload == PyDict(normalize_entry(p))
         IN  /\ Loading(L)
             /\ IF L.value.t = "list"
                THEN /\ entries' = PyList(list_append(L.value.l, payload))
                     /\ entryTags' = list_append(LoadTags(L.value), Len(enqueued) + 1)
                     /\ pc' = "mkdir"
                     /\ op' = "enqueue"
                     /\ ret' = NoResult
                     /\ UNCHANGED <<i, ok, failed, pending, failedTags>>
                ELSE \* a dict, a number or null has no append
                     /\ Idle
                     /\ ret' = Result("enqueue", "raised", 0, 0, "AttributeError")
    /\ loaded' = <<>>
    /\ log' = <<>>
    /\ liveBefore' = live
    /\ casesBefore' = cases
    /\ storeOps' = <<>>
    /\ attempted' = <<>>
    /\ UNCHANGED <<tmp, dirExists, dbVars, fateVars, nSync, nFaults, nForeign>>

(***************************************************************************)
(* sync_buffer_once                                                        *)
(***************************************************************************)
\* the keys of a dict, in the order in which iteration yields them
RECURSIVE KeysFrom(_, _)
KeysFrom(d, k) ==
    IF k > Len(KeyOrder) THEN <<>>
    ELSE (IF KeyOrder[k] \in DOMAIN d THEN <<PyStr(KeyOrder[k])>> ELSE <<>>)
         \o KeysFrom(d, k + 1)

\* what enumerate(entries) yields: the items of a list, the keys of a dict
IterItems(v) ==
    IF v.t = "list" THEN v.l
    ELSE IF v.t = "dict" THEN KeysFrom(v.d, 1)
    ELSE <<>>

\* lines 243-248: load the queue; return (0, 0) when it is empty
SyncLoadAlwaysSaves ==
    /\ pc = "idle"
    /\ nSync < MaxSync
    /\ nSync' = nSync + 1
    /\ \E renamed \in RenameOutcomes :
         LET L == load_buffer(renamed)
         IN  /\ Loading(L)
             /\ IF ~Truthy(L.value)
                THEN /\ entries' = PyList(<<>>)
                     /\ entryTags' = <<>>
                     /\ pc' = "mkdir"
                     /\ op' = "sync"
                     /\ i' = 1 /\ ok' = 0 /\ failed' = <<>> /\ failedTags' = <<>>
                     /\ ret' = NoResult
                     /\ loaded' = <<>>
                     /\ UNCHANGED pending
                ELSE IF L.value.t \notin {"list", "dict"}
                THEN \* enumerate of a number raises outside the try
                     /\ Idle
                     /\ ret' = Result("sync", "raised", 0, 0, "TypeError")
                     /\ loaded' = <<>>
                ELSE /\ entries' = L.value
                     /\ entryTags' = LoadTags(L.value)
                     /\ pc' = "apply"
                     /\ op' = "sync"
                     /\ i' = 1 /\ ok' = 0 /\ failed' = <<>> /\ failedTags' = <<>>
                     /\ ret' = NoResult
                     /\ loaded' = IterItems(L.value)
                     /\ UNCHANGED pending
    /\ log' = <<>>
    /\ liveBefore' = live
    /\ casesBefore' = cases
    /\ storeOps' = <<>>
    /\ attempted' = <<>>
    /\ UNCHANGED <<tmp, dirExists, dbVars, fateVars,
                   enqueued, nFaults, nForeign>>
sync_load ==
    /\ pc = "idle"
    /\ nSync < MaxSync
    /\ nSync' = nSync + 1
    /\ \E renamed \in RenameOutcomes :
         LET L == load_buffer(renamed)
         IN  /\ Loading(L)
             /\ IF ~Truthy(L.value)
                THEN /\ Idle
                     /\ ret' = Result("sync", "returned", 0, 0, "")
                     /\ loaded' = <<>>
                ELSE IF L.value.t \notin {"list", "dict"}
                THEN \* enumerate of a number raises outside the try
                     /\ Idle
                     /\ ret' = Result("sync", "raised", 0, 0, "TypeError")
                     /\ loaded' = <<>>
                ELSE /\ entries' = L.value
                     /\ entryTags' = LoadTags(L.value)
                     /\ pc' = "apply"
                     /\ op' = "sync"
                     /\ i' = 1 /\ ok' = 0 /\ failed' = <<>> /\ failedTags' = <<>>
                     /\ ret' = NoResult
                     /\ loaded' = IterItems(L.value)
                     /\ UNCHANGED pending
    /\ log' = <<>>
    /\ liveBefore' = live
    /\ casesBefore' = cases
    /\ storeOps' = <<>>
    /\ attempted' = <<>>
    /\ UNCHANGED <<tmp, dirExists, dbVars, fateVars,
                   enqueued, nFaults, nForeign>>

\* failed.extend(entries[i:])
ExtendSkipsCurrent(fl, items, k) == fl \o SubSeq(items, k + 1, Len(items))
ExtendRestBehind(fl, items, k) == fl \o SubSeq(items, k + 1, Len(items))
extend_rest(fl, items, k) == fl \o SubSeq(items, k, Len(items))

\* failed.append(e)
KeepFailedFirst(fl, e) == <<e>> \o fl
keep_failed(fl, e) == Append(fl, e)

Bump(f, t) == IF t \in DOMAIN f THEN [f EXCEPT ![t] = @ + 1] ELSE f

\* lines 250-261: one turn of the loop; busy: whether the store is locked by
\* another connection at this moment; audit_fails: whether an INSERT into
\* audit_log would raise
sync_apply ==
    /\ pc = "apply"
    /\ \E busy \in BOOLEAN, audit_fails \in BOOLEAN :
         LET items == IterItems(entries)
             e == items[i]
             tag == TagAt(entryTags, i)
             out == apply_buffer_entry(e, busy, audit_fails)
             raised == out.exc # NoExc
             transient == raised /\ is_locked_or_busy(out.exc)
             last == transient \/ i = Len(items)
         IN  /\ cases' = out.cases
             /\ nextId' = out.nextId
             /\ audit_log' = out.audit_log
             /\ ok' = IF raised THEN ok ELSE ok + 1
             /\ failed' = IF ~raised THEN failed
                           ELSE IF transient THEN extend_rest(failed, items, i)
                           ELSE keep_failed(failed, e)
             /\ failedTags' = IF ~raised THEN failedTags
                               ELSE IF transient
                               THEN extend_rest(failedTags,
                                                [k \in DOMAIN items |-> TagAt(entryTags, k)], i)
                               ELSE keep_failed(failedTags, tag)
             /\ log' = Append(log, IF ~raised THEN "ok"
                                    ELSE IF transient THEN "transient"
                                    ELSE "permanent")
             /\ storeOps' = Append(storeOps, out.ops)
             /\ attempted' = Append(attempted, e)
             /\ applied' = IF raised THEN applied ELSE Bump(applied, tag)
             /\ permFailed' = IF raised /\ ~transient /\ tag # 0
                               THEN permFailed \cup {tag} ELSE permFailed
             /\ i' = i + 1
             /\ pc' = IF last THEN "mkdir" ELSE "apply"
    /\ UNCHANGED <<fileVars, cols, op, entries, pending, ret, loaded, liveBefore,
                   casesBefore,
                   load, origin, liveTags, entryTags, persisted, returned, countVars>>

(***************************************************************************)
(* _save_buffer, step by step                                              *)
(***************************************************************************)
\* the list the running call hands to _save_buffer
SaveArg == IF op = "enqueue" THEN entries.l ELSE failed
SaveTags == IF op = "enqueue" THEN entryTags ELSE failedTags

SavePcs == {"mkdir", "mktemp", "dump", "flush", "fsync", "replace"}

Min(a, b) == IF a < b THEN a ELSE b

\* line 50: p.parent.mkdir(parents=True, exist_ok=True)
save_mkdir ==
    /\ pc = "mkdir"
    /\ dirExists' = TRUE
    /\ pc' = "mktemp"
    /\ UNCHANGED <<live, bak, tmp, dbVars, op, entries, i, ok, failed, pending, passVars, tagVars, fateVars, countVars, ret, load,
                   origin>>

\* line 52: NamedTemporaryFile("w", delete=False, dir=p.parent); json.dump
\* starts with the whole text still to be written
MktempAtLivePath ==
    /\ pc = "mktemp"
    /\ live' = File(<<>>)
    /\ tmp' = [exists |-> TRUE, text |-> <<>>, synced |-> FALSE]
    /\ pending' = json_dump(SaveArg)
    /\ pc' = "dump"
    /\ UNCHANGED <<bak, dirExists, dbVars, op, entries, i, ok, failed,
                   passVars, tagVars, fateVars, countVars, ret, load, origin>>
save_mktemp ==
    /\ pc = "mktemp"
    /\ tmp' = [exists |-> TRUE, text |-> <<>>, synced |-> FALSE]
    /\ pending' = json_dump(SaveArg)
    /\ pc' = "dump"
    /\ UNCHANGED <<live, bak, dirExists, dbVars, op, entries, i, ok, failed,
                   passVars, tagVars, fateVars, countVars, ret, load, origin>>

\* line 53: json.dump writes the text piece by piece into the buffered
\* writer, which passes a full buffer on to the file; what is left when
\* json.dump returns stays in the buffer
DumpInPlace ==
    LET n == Min(BufferSize, Len(pending))
    IN  /\ pc = "dump"
        /\ live' = File((IF live.exists /\ tmp.text # <<>> THEN live.text ELSE <<>>)
                        \o SubSeq(pending, 1, n))
        /\ tmp' = [tmp EXCEPT !.text = @ \o SubSeq(pending, 1, n)]
        /\ pending' = SubSeq(pending, n + 1, Len(pending))
        /\ pc' = IF Len(pending) - n >= BufferSize THEN "dump" ELSE "flush"
        /\ UNCHANGED <<bak, dirExists, dbVars, op, entries, i, ok, failed,
                       passVars, tagVars, fateVars, countVars, ret, load, origin>>
save_dump ==
    LET n == IF Len(pending) >= BufferSize THEN BufferSize ELSE 0
    IN  /\ pc = "dump"
        /\ tmp' = [tmp EXCEPT !.text = @ \o SubSeq(pending, 1, n)]
        /\ pending' = SubSeq(pending, n + 1, Len(pending))
        /\ pc' = IF Len(pending) - n >= BufferSize THEN "dump" ELSE "flush"
        /\ UNCHANGED <<live, bak, dirExists, dbVars, op, entries, i, ok, failed,
                       passVars, tagVars, fateVars, countVars, ret, load, origin>>

\* line 54: tmp.flush()
save_flush ==
    /\ pc = "flush"
    /\ tmp' = [tmp EXCEPT !.text = @ \o pending]
    /\ pending' = <<>>
    /\ pc' = "fsync"
    /\ UNCHANGED <<live, bak, dirExists, dbVars, op, entries, i, ok, failed,
                   passVars, tagVars, fateVars, countVars, ret, load,
                   origin>>

\* line 55 and the end of the with block: os.fsync(tmp.fileno()), close
save_fsync ==
    /\ pc = "fsync"
    /\ tmp' = [tmp EXCEPT !.synced = TRUE]
    /\ pc' = "replace"
    /\ UNCHANGED <<live, bak, dirExists, dbVars, op, entries, i, ok, failed,
                   pending, passVars, tagVars, fateVars, countVars,
                   ret, load, origin>>

\* line 56: os.replace(tmp.name, p); then the call returns: enqueue_write
\* None, sync_buffer_once (ok, len(failed))
save_replace ==
    /\ pc = "replace"
    /\ live' = File(tmp.text)
    /\ tmp' = NoTmp
    /\ origin' = "program"
    /\ liveTags' = SaveTags
    /\ persisted' = persisted \cup ({SaveTags[k] : k \in DOMAIN SaveTags} \ {0})
    /\ returned' = IF op = "enqueue" THEN returned \cup {Len(enqueued)} ELSE returned
    /\ ret' = IF op = "enqueue" THEN Result("enqueue", "returned", 0, 0, "")
               ELSE Result("sync", "returned", ok, Len(failed), "")
    /\ Idle
    /\ UNCHANGED <<bak, dirExists, dbVars, passVars, applied, permFailed,
                   countVars, load>>

\* an I/O step of _save_buffer fails (disk full, no permission): the
\* exception leaves the call; the temporary file, if any, is never read again
save_fail ==
    /\ pc \in SavePcs
    /\ nFaults < MaxFaults
    /\ nFaults' = nFaults + 1
    /\ tmp' = NoTmp
    /\ ret' = Result(op, "raised", 0, 0, "OSError")
    /\ Idle
    /\ UNCHANGED <<live, bak, dirExists, dbVars, passVars, liveTags, fateVars,
                   enqueued, nSync, nForeign, load, origin>>

(***************************************************************************)
(* The environment.                                                        *)
(***************************************************************************)
\* the process dies in the middle of a call and is started again; a
\* temporary file it leaves behind is never read again
Crash ==
    /\ pc # "idle"
    /\ nFaults < MaxFaults
    /\ nFaults' = nFaults + 1
    /\ tmp' = NoTmp
    /\ ret' = Result(op, "crashed", 0, 0, "")
    /\ Idle
    /\ UNCHANGED <<live, bak, dirExists, dbVars, passVars, liveTags, fateVars,
                   enqueued, nSync, nForeign, load, origin>>

\* texts that something other than this program may leave in the queue file
TextTruncated == <<LB, LC>>
TextGarbage == <<RC>>
TextEmptyObject == <<LC, RC>>
TextEnvelope == <<LC, Key("hash"), PyStr("x"), RC>>
TextNumber == <<PyInt(5)>>
TextNull == <<PyNone>>
TextForged == json_dump(<<PyDict(DelCase)>>)

\* a forged entry list is a foreign text once the program has saved a queue;
\* a text equal to the quarantined one is not written again
ForeignTexts ==
    ({TextTruncated, TextGarbage, TextEmptyObject, TextEnvelope, TextNumber,
      TextNull}
     \cup (IF live.exists /\ origin = "program" /\ live.text # TextForged
           THEN {TextForged} ELSE {}))
    \ (IF bak.exists THEN {bak.text} ELSE {})

\* the queue file is overwritten from outside while no call is running
ExternalWrite ==
    /\ pc = "idle"
    /\ nForeign < MaxForeign
    /\ nForeign' = nForeign + 1
    /\ \E text \in ForeignTexts : live' = File(text)
    /\ origin' = "foreign"
    /\ liveTags' = <<>>
    /\ load' = NoLoad
    /\ UNCHANGED <<bak, tmp, dirExists, dbVars, procVars, passVars, entryTags,
                   failedTags, fateVars, enqueued, nSync, nFaults, ret>>

(***************************************************************************)
(* The main window and its tabs.                                           *)
(***************************************************************************)
\* cases entered through the form while the store answers
MaxCases == 2
\* rows of audit_log the handlers of the tabs write
MaxAudit == 3

baseVars == <<fileVars, dbVars, procVars, passVars, tagVars, fateVars,
              countVars, ret, load, origin>>

\* clinic_choices_for: the clinics the form of CreateTab offers
clinic_choices_for(r, csv) ==
    LET allowed == clinics_of_user(r, csv)
    IN  IF allowed = PyNone THEN clinics
        ELSE {c \in clinics : PyStr(c) \in Range(allowed.l)}

\* self.allowed of OpenTab and DoneTab
Allowed == clinics_of_user(session.role, session.clinics_csv)

\* _scope_filter_sql: WHERE status=... [AND clinic IN (...)]
scope_filter(allowed, status, row) ==
    /\ row["status"] = PyStr(status)
    /\ allowed = PyNone \/ row["clinic"] \in Range(allowed.l)

\* OpenTab._fetch and DoneTab._fetch, with an empty search field
fetch_open(allowed, rows) ==
    {row \in rows : scope_filter(allowed, "In Reparatur", row)}
fetch_done(allowed, rows) ==
    {row \in rows : scope_filter(allowed, "Abgeschlossen", row)}

\* what the user entered in the form of CreateTab; the fields that are the
\* same in every form of the model are written out in on_save_payload
Form(clinic, device) == [clinic |-> clinic, device |-> device]
\* the clinics the forms of the model choose among those offered
FormClinics == {"Neuro", "Ortho"}
Forms ==
    {Form(c, d) :
        c \in clinic_choices_for(session.role, session.clinics_csv) \cap FormClinics,
        d \in {"Endoscope", ""}}

\* s or None
StrOrNone(s) == IF s = "" THEN PyNone ELSE PyStr(s)

\* QDate.currentDate().toString("yyyy-MM-dd")
Today == "2026-01-01"

\* payload of CreateTab.on_save
PayloadWithoutStatus(form, current_username) ==
    [k \in {"clinic", "device_name", "status", "created_by"} |->
        CASE k = "clinic"      -> PyStr(form.clinic)
          [] k = "device_name" -> PyStr(form.device)
          [] k = "status"      -> PyNone
          [] k = "created_by"  -> StrOrNone(current_username)]
on_save_payload(form, current_username) ==
    [k \in {"clinic", "device_name", "wave_number", "submitter",
            "service_provider", "status", "reason", "date_submitted",
            "date_returned", "notes", "created_by"} |->
        CASE k = "clinic"           -> PyStr(form.clinic)
          [] k = "device_name"      -> PyStr(form.device)
          [] k = "wave_number"      -> StrOrNone("W1")
          [] k = "submitter"        -> StrOrNone("Max")
          [] k = "service_provider" -> StrOrNone("Tom")
          [] k = "status"           -> PyStr("In Reparatur")
          [] k = "reason"           -> StrOrNone("Defekt")
          [] k = "date_submitted"   -> PyStr(Today)
          [] k = "date_returned"    -> PyNone
          [] k = "notes"            -> PyNone
          [] k = "created_by"       -> StrOrNone(current_username)]

\* dict(payload, type="insert_case")
on_save_entry(form, current_username) ==
    Put(on_save_payload(form, current_username), "type", PyStr("insert_case"))

\* a row of audit_log
AuditRow(action, id, details) ==
    [action |-> action, entity |-> "case", entity_id |-> id, details |-> details]

\* CreateTab.on_save; busy: the store raises on the INSERT
on_save(form, busy) ==
    /\ win = "open" /\ pc = "idle"
    /\ session.role # "Viewer"
    /\ LET payload == on_save_payload(form, session.username)
           row == [c \in cols |->
                     IF c = "id" THEN PyInt(nextId)
                     ELSE IF c \in DOMAIN payload THEN payload[c] ELSE PyNone]
       IN  IF form.clinic = "" \/ form.device = ""
           THEN \* validation: the handler returns
                /\ lastUi' = [handler |-> "on_save", path |-> "invalid",
                              id |-> 0, form |-> form]
                /\ UNCHANGED <<baseVars, win, session, clinics, openTable,
                               doneTable, users, userTable>>
           ELSE IF ~busy /\ RowAllowed(row)
           THEN \* lines 204-237: insert, audit, case_created -> OpenTab.refresh
                /\ nextId <= MaxCases
                /\ Len(audit_log) < MaxAudit
                /\ cases' = cases \cup {row}
                /\ nextId' = nextId + 1
                /\ audit_log' = Append(audit_log,
                                       AuditRow("case_create", PyInt(nextId),
                                                PyDict(payload)))
                /\ openTable' = fetch_open(Allowed, cases')
                /\ lastUi' = [handler |-> "on_save", path |-> "direct",
                              id |-> nextId, form |-> form]
                /\ UNCHANGED <<fileVars, cols, procVars, passVars, tagVars,
                               fateVars, countVars, ret, load, origin>>
                /\ UNCHANGED <<win, session, clinics, doneTable, users,
                               userTable>>
           ELSE \* lines 239-241: the offline fallback
                /\ enqueue_write(on_save_entry(form, session.username))
                /\ lastUi' = [handler |-> "on_save", path |-> "offline",
                              id |-> 0, form |-> form]
                /\ UNCHANGED <<win, session, clinics, openTable, doneTable,
                               users, userTable>>
    /\ UNCHANGED <<timers, funVars, loginVars>>

\* Main.__init__ up to the start sync, for the user uid who has logged in
Main_init_sync(uid) ==
    /\ win = "closed"
    /\ uid \in DOMAIN users
    /\ sync_load
    /\ win' = "syncing"
    /\ session' = [user_id |-> uid, role |-> users[uid].role,
                   clinics_csv |-> users[uid].clinics,
                   username |-> users[uid].username]
    \* get_conn inserts the seed clinics that are missing
    /\ clinics' = clinics \cup SEED_CLINICS
    /\ UNCHANGED <<lastUi, openTable, doneTable, users, userTable,
                   timers, funVars, loginVars>>

\* Main.__init__ after the start sync: the tabs are built and refreshed
Main_init_tabs ==
    /\ win = "syncing" /\ pc = "idle"
    /\ win' = "open"
    /\ openTable' = fetch_open(Allowed, cases)
    /\ doneTable' = fetch_done(Allowed, cases)
    /\ userTable' = IF session.role = "Admin" THEN users ELSE NoUserRows
    /\ UNCHANGED <<baseVars, session, lastUi, clinics, users, timers, funVars, loginVars>>

\* the window is closed and the application ends
Main_close ==
    /\ win = "open" /\ pc = "idle"
    /\ win' = "closed"
    /\ session' = NoSession
    /\ lastUi' = NoUi
    /\ openTable' = {} /\ doneTable' = {} /\ userTable' = NoUserRows
    /\ timers' = <<>>
    /\ UNCHANGED <<baseVars, clinics, users, funVars, loginVars>>

(***************************************************************************)
(* OpenTab and DoneTab: closing and reopening a case.                      *)
(***************************************************************************)
\* callbacks waiting in the event loop at a time
MaxTimers == 2

\* a callback handed to QTimer.singleShot(0, ...) by the handler of the
\* checkbox of case id in a tab
Timer(cb, tab, id) == [cb |-> cb, tab |-> tab, id |-> id]

\* the table of a tab has a row for case id
Listed(table, id) == \E row \in table : row["id"] = PyInt(id)

\* sender.setEnabled(False): the checkbox of the row stays disabled until
\* its callback has run
Disabled(tab, id) ==
    \E k \in DOMAIN timers : timers[k].tab = tab /\ timers[k].id = id

\* UPDATE cases SET status=..., date_returned=..., closed_by=... WHERE id=?
update_case_row(rows, id, status, date_returned, closed_by) ==
    {IF row["id"] = PyInt(id)
     THEN [c \in DOMAIN row |->
             CASE c = "status"        -> PyStr(status)
               [] c = "date_returned" -> date_returned
               [] c = "closed_by"     -> closed_by
               [] OTHER               -> row[c]]
     ELSE row : row \in rows}

\* the entry OpenTab._on_done_clicked queues when the store raises
on_done_entry(id, current_username) ==
    [k \in {"type", "id", "date_returned", "status", "closed_by"} |->
        CASE k = "type"          -> PyStr("update_case")
          [] k = "id"            -> PyInt(id)
          [] k = "date_returned" -> PyStr(Today)
          [] k = "status"        -> PyStr("Abgeschlossen")
          [] k = "closed_by"     -> StrOrNone(current_username)]

\* the entry DoneTab._on_reopen_clicked queues when the store raises
on_reopen_entry(id) ==
    [k \in {"type", "id", "date_returned", "status", "closed_by"} |->
        CASE k = "type"          -> PyStr("update_case")
          [] k = "id"            -> PyInt(id)
          [] k = "date_returned" -> PyNone
          [] k = "status"        -> PyStr("In Reparatur")
          [] k = "closed_by"     -> PyNone]

\* OpenTab._on_done_clicked for the checkbox of case id; busy: the store
\* raises inside the transaction
on_done_clicked(id, busy) ==
    /\ win = "open" /\ pc = "idle"
    /\ session.role # "Viewer"
    /\ Listed(openTable, id)
    /\ ~Disabled("open", id)
    /\ Len(timers) < MaxTimers
    /\ IF ~busy
       THEN /\ Len(audit_log) < MaxAudit
            /\ cases' = update_case_row(cases, id, "Abgeschlossen", PyStr(Today),
                                        StrOrNone(session.username))
            /\ audit_log' =
                 Append(audit_log,
                        AuditRow("case_update", PyInt(id),
                                 PyDict([k \in {"status", "date_returned", "closed_by"} |->
                                           on_done_entry(id, session.username)[k]])))
            /\ timers' = Append(timers, Timer("after_done_success", "open", id))
            /\ lastUi' = [handler |-> "on_done_clicked", path |-> "direct",
                          id |-> id, form |-> NoForm]
            /\ UNCHANGED <<fileVars, cols, nextId, procVars, passVars, tagVars,
                           fateVars, countVars, ret, load, origin>>
       ELSE /\ enqueue_write(on_done_entry(id, session.username))
            /\ timers' = Append(timers, Timer("after_done_offline", "open", id))
            /\ lastUi' = [handler |-> "on_done_clicked", path |-> "offline",
                          id |-> id, form |-> NoForm]
    /\ UNCHANGED <<win, session, clinics, openTable, doneTable, users, userTable,
                   funVars, loginVars>>

\* OpenTab._after_done_success: case_completed -> DoneTab.refresh, then
\* OpenTab.refresh
AfterDoneRefreshesOpenOnly ==
    /\ win = "open" /\ pc = "idle"
    /\ timers # <<>> /\ Head(timers).cb = "after_done_success"
    /\ timers' = Tail(timers)
    /\ openTable' = fetch_open(Allowed, cases)
    /\ UNCHANGED <<baseVars, win, session, lastUi, clinics, doneTable, users,
                   userTable, funVars, loginVars>>
after_done_success ==
    /\ win = "open" /\ pc = "idle"
    /\ timers # <<>> /\ Head(timers).cb = "after_done_success"
    /\ timers' = Tail(timers)
    /\ doneTable' = fetch_done(Allowed, cases)
    /\ openTable' = fetch_open(Allowed, cases)
    /\ UNCHANGED <<baseVars, win, session, lastUi, clinics, users, userTable,
                   funVars, loginVars>>

\* OpenTab._after_done_offline and offline_reset of DoneTab: the checkbox is
\* unchecked and enabled again
after_offline ==
    /\ win = "open" /\ pc = "idle"
    /\ timers # <<>>
    /\ Head(timers).cb \in {"after_done_offline", "offline_reset"}
    /\ timers' = Tail(timers)
    /\ UNCHANGED <<baseVars, win, session, lastUi, clinics, openTable, doneTable,
                   users, userTable, funVars, loginVars>>

\* DoneTab._on_reopen_clicked for the checkbox of case id; busy: the store
\* raises inside the transaction
on_reopen_clicked(id, busy) ==
    /\ win = "open" /\ pc = "idle"
    /\ session.role # "Viewer"
    /\ Listed(doneTable, id)
    /\ ~Disabled("done", id)
    /\ Len(timers) < MaxTimers
    /\ IF ~busy
       THEN /\ Len(audit_log) < MaxAudit
            /\ cases' = update_case_row(cases, id, "In Reparatur", PyNone, PyNone)
            /\ audit_log' =
                 Append(audit_log,
                        AuditRow("case_update", PyInt(id),
                                 PyDict([k \in {"status", "date_returned", "closed_by"} |->
                                           on_reopen_entry(id)[k]])))
            /\ timers' = Append(timers, Timer("after_reopen_success", "done", id))
            /\ lastUi' = [handler |-> "on_reopen_clicked", path |-> "direct",
                          id |-> id, form |-> NoForm]
            /\ UNCHANGED <<fileVars, cols, nextId, procVars, passVars, tagVars,
                           fateVars, countVars, ret, load, origin>>
       ELSE /\ enqueue_write(on_reopen_entry(id))
            /\ timers' = Append(timers, Timer("offline_reset", "done", id))
            /\ lastUi' = [handler |-> "on_reopen_clicked", path |-> "offline",
                          id |-> id, form |-> NoForm]
    /\ UNCHANGED <<win, session, clinics, openTable, doneTable, users, userTable,
                   funVars, loginVars>>

\* DoneTab._after_reopen_success: case_reopened -> OpenTab.refresh, then
\* DoneTab.refresh
after_reopen_success ==
    /\ win = "open" /\ pc = "idle"
    /\ timers # <<>> /\ Head(timers).cb = "after_reopen_success"
    /\ timers' = Tail(timers)
    /\ openTable' = fetch_open(Allowed, cases)
    /\ doneTable' = fetch_done(Allowed, cases)
    /\ UNCHANGED <<baseVars, win, session, lastUi, clinics, users, userTable,
                   funVars, loginVars>>

(***************************************************************************)
(* AdminTab: the users table and its edit form.                            *)
(***************************************************************************)
\* a row of audit_log about a user
UserAuditRow(action, id, details) ==
    [action |-> action, entity |-> "user", entity_id |-> PyInt(id),
     details |-> details]

\* changes of the users table the administrator makes
MaxEdits == 2

\* the items of role_edit
ROLES == {"Admin", "Techniker", "Viewer"}

\* new_clinics of the edit form: "ALL" when chk_all_edit is checked, else the
\* checked names joined; the model checks no box or two
EditClinics ==
    {ALL_CLINICS_SENTINEL, join(<<>>), join(<<"Neuro", "Ortho">>)}

\* line 344: the user of the session would take the Admin role from itself
GuardIgnoresRole(uid, current_role, new_role) ==
    uid = session.user_id /\ current_role # "Admin" /\ new_role # "Admin"
demotes_self(uid, current_role, new_role) ==
    uid = session.user_id /\ current_role = "Admin" /\ new_role # "Admin"

\* AdminTab.on_save_selected for the selected row uid; fails: the store
\* raises inside the transaction
on_save_selected(uid, new_role, new_clinics, fails) ==
    /\ win = "open" /\ pc = "idle"
    /\ session.role = "Admin"
    /\ uid \in DOMAIN userTable
    /\ LET current_role == userTable[uid].role
       IN  IF new_clinics = <<>>
           THEN /\ lastUi' = [handler |-> "on_save_selected", path |-> "invalid",
                              id |-> uid, form |-> NoForm]
                /\ UNCHANGED <<users, userTable, audit_log>>
           ELSE IF demotes_self(uid, current_role, new_role)
           THEN /\ lastUi' = [handler |-> "on_save_selected", path |-> "refused",
                              id |-> uid, form |-> NoForm]
                /\ UNCHANGED <<users, userTable, audit_log>>
           ELSE IF fails
           THEN /\ lastUi' = [handler |-> "on_save_selected", path |-> "failed",
                              id |-> uid, form |-> NoForm]
                /\ UNCHANGED <<users, userTable, audit_log>>
           ELSE /\ Len(audit_log) < MaxEdits
                /\ users' = [u \in DOMAIN users |->
                               IF u = uid
                               THEN User(users[u].username, new_role, new_clinics)
                               ELSE users[u]]
                /\ audit_log' =
                     Append(audit_log,
                            UserAuditRow("user_update", uid,
                                         PyDict([k \in {"role", "clinics"} |->
                                                   IF k = "role" THEN PyStr(new_role)
                                                   ELSE PyStr(spell(new_clinics))])))
                /\ userTable' = users'
                /\ lastUi' = [handler |-> "on_save_selected", path |-> "direct",
                              id |-> uid, form |-> NoForm]
    /\ UNCHANGED <<fileVars, cols, cases, nextId, procVars, passVars, tagVars,
                   fateVars, countVars, ret, load, origin>>
    /\ UNCHANGED <<win, session, clinics, openTable, doneTable, timers,
                   funVars, loginVars>>

\* AdminTab.on_delete_selected for the selected row uid; confirm: the answer
\* to the question; fails: delete_user raises
on_delete_selected(uid, confirm, fails) ==
    /\ win = "open" /\ pc = "idle"
    /\ session.role = "Admin"
    /\ uid \in DOMAIN userTable
    /\ IF uid = session.user_id
       THEN /\ lastUi' = [handler |-> "on_delete_selected", path |-> "refused",
                          id |-> uid, form |-> NoForm]
            /\ UNCHANGED <<users, userTable, audit_log>>
       ELSE IF ~confirm
       THEN /\ lastUi' = [handler |-> "on_delete_selected", path |-> "cancelled",
                          id |-> uid, form |-> NoForm]
            /\ UNCHANGED <<users, userTable, audit_log>>
       ELSE IF fails
       THEN /\ lastUi' = [handler |-> "on_delete_selected", path |-> "failed",
                          id |-> uid, form |-> NoForm]
            /\ UNCHANGED <<users, userTable, audit_log>>
       ELSE /\ Len(audit_log) < MaxEdits
            /\ users' = [u \in DOMAIN users \ {uid} |-> users[u]]
            /\ audit_log' = Append(audit_log,
                                   UserAuditRow("user_delete", uid, PyNone))
            /\ userTable' = users'
            /\ lastUi' = [handler |-> "on_delete_selected", path |-> "direct",
                          id |-> uid, form |-> NoForm]
    /\ UNCHANGED <<fileVars, cols, cases, nextId, procVars, passVars, tagVars,
                   fateVars, countVars, ret, load, origin>>
    /\ UNCHANGED <<win, session, clinics, openTable, doneTable, timers,
                   funVars, loginVars>>

(***************************************************************************)
(* db.delete_clinic                                                        *)
(***************************************************************************)
\* lines 195-198: the clinics text of a user without the deleted name
csv_without(csv, name) ==
    LET parts == stripped_parts(csv)
    IN  IF \E k \in DOMAIN parts : parts[k] = name
        THEN join(SelectSeq(parts, LAMBDA c : c # name))
        ELSE csv

\* delete_clinic(name): refused with ValueError while a case refers to the
\* clinic; else the name leaves the clinics text of every user whose text is
\* not "ALL", the clinic is deleted and an audit row written
delete_clinic(name) ==
    /\ pc = "idle"
    /\ name \in clinics \cup SEED_CLINICS
    /\ ~\E row \in cases : row["clinic"] = PyStr(name)
    /\ Len(audit_log) < MaxAudit
    /\ users' = [u \in DOMAIN users |->
                   IF users[u].clinics # ALL_CLINICS_SENTINEL
                   THEN User(users[u].username, users[u].role,
                             csv_without(users[u].clinics, name))
                   ELSE users[u]]
    \* get_conn first inserts the seed clinics that are missing
    /\ clinics' = (clinics \cup SEED_CLINICS) \ {name}
    /\ audit_log' = Append(audit_log,
                           [action |-> "clinic_delete", entity |-> "clinic",
                            entity_id |-> PyNone,
                            details |-> PyDict([k \in {"name"} |-> PyStr(name)])])
    /\ UNCHANGED <<fileVars, cols, cases, nextId, procVars, passVars, tagVars,
                   fateVars, countVars, ret, load, origin>>
    /\ UNCHANGED <<win, session, lastUi, openTable, doneTable, userTable,
                   timers, funVars, loginVars>>

(***************************************************************************)
(* auth.authenticate                                                       *)
(***************************************************************************)
MAX_FAILED_ATTEMPTS == 5

\* authenticate calls of a run
MaxLogins == 6

\* the users whose names are entered in the login window; 0: a name that no
\* user has
LoginIds == {0, 1, 2}

\* _failed_attempts_count(conn, user_id, LOCKOUT_MINUTES)
failed_attempts_count(uid) == login_attempts[uid].recent

\* line 92: the lockout check
locked_out(uid) == failed_attempts_count(uid) >= MAX_FAILED_ATTEMPTS

\* _audit(conn, user_id, action, details)
\* the row has no entity_id; details: the attempts of the window for a
\* failure of an existing user
LoginAuditRow(action, uid, attempts) ==
    [user_id |-> IF uid = 0 THEN PyNone ELSE PyInt(uid), action |-> action,
     entity |-> "user", details |-> attempts]

\* what authenticate returns on success
Creds(uid) ==
    [t |-> "tuple", v |-> <<uid, users[uid].role, users[uid].clinics>>]

\* authenticate(username, password) for the name of user uid (0: of no
\* user); correct: the password is the one of the user; writes_fail: the
\* statements that write raise, which authenticate swallows
authenticate(uid, correct, writes_fail) ==
    /\ win = "closed" /\ pc = "idle"
    /\ nLogins < MaxLogins
    /\ nLogins' = nLogins + 1
    /\ uid = 0 \/ uid \in DOMAIN users
    /\ LET exists == uid # 0
           recent == IF exists THEN failed_attempts_count(uid) ELSE 0
           call(result) == [user_id |-> uid, correct |-> correct,
                            recent |-> recent, result |-> result]
       IN  IF exists /\ locked_out(uid)
           THEN \* lines 92-98
                /\ audit_log' = IF writes_fail THEN audit_log
                                ELSE Append(audit_log, LoginAuditRow("login_blocked", uid, PyNone))
                /\ lastAuth' = call(PyNone)
                /\ UNCHANGED login_attempts
           ELSE IF exists /\ correct
           THEN \* lines 109-116
                /\ audit_log' = IF writes_fail THEN audit_log
                                ELSE Append(audit_log, LoginAuditRow("login_success", uid, PyNone))
                /\ login_attempts' = IF writes_fail THEN login_attempts
                                     ELSE [login_attempts EXCEPT ![uid] = NoAttempts]
                /\ lastAuth' = call(Creds(uid))
           ELSE \* lines 118-129
                /\ audit_log' = IF writes_fail THEN audit_log
                                ELSE Append(audit_log, LoginAuditRow("login_failure", uid, IF exists THEN PyInt(recent + 1) ELSE PyNone))
                /\ login_attempts' =
                     IF writes_fail \/ ~exists THEN login_attempts
                     ELSE [login_attempts EXCEPT ![uid].recent = @ + 1]
                /\ lastAuth' = call(PyNone)
    /\ UNCHANGED <<fileVars, cols, cases, nextId, procVars, passVars, tagVars,
                   fateVars, countVars, ret, load, origin, tabVars, funVars>>

\* LOCKOUT_MINUTES minutes pass: the attempts recorded so far are no longer
\* within the window
minutes_pass ==
    /\ win = "closed" /\ pc = "idle"
    /\ \E u \in DOMAIN login_attempts : login_attempts[u].recent > 0
    /\ login_attempts' = [u \in DOMAIN login_attempts |->
                            [recent |-> 0,
                             old |-> login_attempts[u].old + login_attempts[u].recent]]
    /\ UNCHANGED <<baseVars, tabVars, funVars, lastAuth, nLogins>>

(***************************************************************************)
(* Specifications.                                                         *)
(***************************************************************************)
\* the steps that continue a running call
Steps ==
    \/ sync_apply
    \/ save_mkdir
    \/ save_mktemp
    \/ save_dump
    \/ save_flush
    \/ save_fsync
    \/ save_replace

\* the buffer module, called directly
Program ==
    /\ \/ \E p \in Payloads : enqueue_write(p)
       \/ sync_load
       \/ Steps
    /\ UNCHANGED <<tabVars, funVars, loginVars>>

\* the program, its I/O failures and its crashes
Next == Program \/ ((save_fail \/ Crash) /\ UNCHANGED <<tabVars, funVars, loginVars>>)

Spec == Init /\ [][Next]_vars

\* the program with a queue file that is written from outside
NextForeign == Program \/ (ExternalWrite /\ UNCHANGED <<tabVars, funVars, loginVars>>)

SpecForeign == Init /\ [][NextForeign]_vars

\* the buffer module with entries of types it does not know in the queue
NextTypes ==
    /\ \/ \E p \in TypePayloads : enqueue_write(p)
       \/ sync_load
       \/ Steps
    /\ UNCHANGED <<tabVars, funVars, loginVars>>

SpecTypes == Init /\ [][NextTypes]_vars

\* the program, its I/O failures and crashes, and writes from outside
NextFaultsForeign == Next \/ (ExternalWrite /\ UNCHANGED <<tabVars, funVars, loginVars>>)

SpecFaultsForeign == Init /\ [][NextFaultsForeign]_vars

\* the application: login, start sync, the tabs; the store may be locked at
\* any statement, the file system works
NextTabs ==
    \/ \E uid \in DOMAIN users : Main_init_sync(uid)
    \/ Steps /\ UNCHANGED <<tabVars, funVars, loginVars>>
    \/ Main_init_tabs
    \/ Main_close
    \/ \E form \in Forms, busy \in BOOLEAN : on_save(form, busy)
    \/ \E id \in 1 .. MaxCases, busy \in BOOLEAN : on_done_clicked(id, busy)
    \/ \E id \in 1 .. MaxCases, busy \in BOOLEAN : on_reopen_clicked(id, busy)
    \/ after_done_success
    \/ after_reopen_success
    \/ after_offline

SpecTabs == Init /\ [][NextTabs]_vars

\* the main window with the tab of the administrator
NextAdmin ==
    \/ \E uid \in DOMAIN users : Main_init_sync(uid)
    \/ Main_init_tabs
    \/ Main_close
    \/ \E uid \in DOMAIN userTable, new_role \in ROLES,
          new_clinics \in EditClinics, fails \in BOOLEAN :
          on_save_selected(uid, new_role, new_clinics, fails)
    \/ \E uid \in DOMAIN userTable, confirm \in BOOLEAN, fails \in BOOLEAN :
          on_delete_selected(uid, confirm, fails)

SpecAdmin == Init /\ [][NextAdmin]_vars

\* the main window over a store that answers, and the deletion of clinics
NextClinics ==
    \/ \E uid \in DOMAIN users : Main_init_sync(uid)
    \/ Main_init_tabs
    \/ Main_close
    \/ \E form \in Forms : on_save(form, FALSE)
    \/ \E name \in clinics : delete_clinic(name)

SpecClinics == Init /\ [][NextClinics]_vars

\* the login window
NextLogin ==
    \/ \E uid \in LoginIds, correct \in BOOLEAN, writes_fail \in BOOLEAN :
          authenticate(uid, correct, writes_fail)
    \/ minutes_pass

SpecLogin == Init /\ [][NextLogin]_vars

\* _normalize_entry on its own: the entries it is given and its repeated
\* application
MaxCalls == 2

ActorFields == {"created_by", "submitter", "username", "user", "owner"}
ActorValues == {PyNone, PyStr(""), PyStr("A")}
EntryTypes == {"insert_case", "update_case", "delete_case", "noop"}

\* an entry of type ty with the actor fields of f and, but for an insert, an id
EntryOf(ty, f) ==
    [k \in {"type"} \cup DOMAIN f \cup (IF ty = "insert_case" THEN {} ELSE {"id"}) |->
        IF k = "type" THEN PyStr(ty)
        ELSE IF k \in DOMAIN f THEN f[k] ELSE PyInt(1)]

NormalizeArgs ==
    UNION {{EntryOf(ty, f) : ty \in EntryTypes, f \in [K -> ActorValues]} :
              K \in SUBSET ActorFields}

InitNormalize == Start /\ arg \in NormalizeArgs /\ results = <<>>

\* _normalize_entry is applied to the argument, then to its own result
normalize_call ==
    /\ Len(results) < MaxCalls
    /\ results' = Append(results,
                          normalize_entry(IF results = <<>> THEN arg
                                          ELSE results[Len(results)]))
    /\ UNCHANGED <<baseVars, tabVars, arg, loginVars>>

SpecNormalize == InitNormalize /\ [][normalize_call]_vars

(***************************************************************************)
(* Properties.                                                             *)
(***************************************************************************)
\* what _load_buffer would return now, without its side effects
PersistedQueue == load_buffer(TRUE).value

Count(seq, x) == Cardinality({k \in DOMAIN seq : seq[k] = x})

SyncReturned == pc = "idle" /\ ret.op = "sync" /\ ret.st = "returned"

\* C1: a pass in which exactly one entry fails permanently and every other
\* entry applies returns the number of the others as applied_count and leaves
\* the persisted queue empty.
C1_PermanentFailureDropped ==
    (SyncReturned /\ Len(log) = Len(loaded)
        /\ Count(log, "permanent") = 1 /\ Count(log, "transient") = 0)
    => (ret.applied = Len(loaded) - 1 /\ PersistedQueue = PyList(<<>>))

\* C2: a busy/locked error ends the pass at once; when e1..e(i-1) applied and
\* ei met it, the pass returns (i-1, n-i+1) and the persisted queue is
\* ei..en in the original order.
C2_OrderPreservedUnderContention ==
    /\ \A k \in DOMAIN log :
          log[k] = "transient" => (k = Len(log) /\ pc # "apply")
    /\ (SyncReturned /\ log # <<>> /\ log[Len(log)] = "transient"
           /\ Count(log, "ok") = Len(log) - 1)
        => /\ ret.applied = Len(log) - 1
           /\ ret.remaining = Len(loaded) - Len(log) + 1
           /\ PersistedQueue = PyList(SubSeq(loaded, Len(log), Len(loaded)))

\* C2: a pass over two entries whose first applied and whose second met a
\* locked store has returned.
C2_Witness ==
    SyncReturned /\ log = <<"ok", "transient">> /\ Len(loaded) = 2

\* C3: no queued entry is applied to the store more than once.
C3_NoDuplicateApply == \A t \in EnqIds : applied[t] <= 1

\* C4: every entry that reached the queue file and was neither applied nor
\* failed permanently is still in the queue file, unchanged; every entry
\* whose enqueue_write returned reached the queue file.
C4_NoSilentLoss ==
    /\ returned \subseteq persisted
    /\ \A t \in persisted :
          (applied[t] = 0 /\ t \notin permFailed)
          => \E k \in DOMAIN liveTags :
                /\ liveTags[k] = t
                /\ PersistedQueue.t = "list"
                /\ k \in DOMAIN PersistedQueue.l
                /\ PersistedQueue.l[k] = PyDict(normalize_entry(enqueued[t]))

\* C4: the process has crashed in a pass that had applied one entry and not
\* yet another, which waits in the queue file.
C4_Witness ==
    /\ pc = "idle" /\ ret.op = "sync" /\ ret.st = "crashed"
    /\ \E t \in returned : applied[t] = 1
    /\ \E t \in returned : applied[t] = 0 /\ t \notin permFailed

\* C5: no step of a save, and no crash or failure during it, changes the
\* content at the live path, except the final replace, which installs the
\* complete new text from a temporary file that is fully written and forced
\* to the disk; the live path never holds a partial text.
C5_AtomicSave ==
    [][/\ pc \in SavePcs =>
            \/ live' = live
            \/ /\ pc = "replace"
               /\ tmp.synced
               /\ tmp.text = json_dump(SaveArg)
               /\ live' = File(json_dump(SaveArg))
       /\ live'.exists => json_loads(live'.text).ok]_vars

\* C5: a save is under way with the temporary file partly written while the
\* live path still holds the previous queue.
C5_Witness ==
    /\ pc = "flush" /\ pending # <<>> /\ tmp.text # <<>>
    /\ live.exists /\ live.text # json_dump(SaveArg)

\* C6: the load that directly follows a save returns the saved list.
C6_RoundTrip ==
    [][(pc = "replace" /\ pc' = "idle" /\ ret'.st = "returned")
       => load_from(live', bak', TRUE).value = PyList(SaveArg)]_vars

\* C6: a list of two entries, one with an integer and a null field, has been
\* saved and loads as two entries.
C6_Witness ==
    /\ pc = "idle" /\ ret.op = "enqueue" /\ ret.st = "returned"
    /\ PersistedQueue.t = "list" /\ Len(PersistedQueue.l) = 2
    /\ PyDict(DelCase) \in Range(PersistedQueue.l)

\* C7: a load that meets an entry list changed from outside returns an empty
\* sequence and leaves the changed text under the quarantine name.
C7_TamperDetected ==
    load.src = "tampered"
    => (load.result = PyList(<<>>) /\ bak = File(load.text))

\* C8: a load that meets an unparsable file returns an empty sequence, and
\* the unparsable text is then under the quarantine name and no longer at
\* the live path.
C8_UnparsableQuarantined ==
    load.src = "unparsable"
    => /\ load.result = PyList(<<>>)
       /\ bak = File(load.text)
       /\ ~(live.exists /\ live.text = load.text)

\* C9: whatever the queue file holds, enqueue_write and sync_buffer_once do
\* not raise, and enqueue_write leaves a queue that ends with the new entry.
C9_CorruptStateNeverSurfaces ==
    (pc = "idle" /\ load.src \in {"unparsable", "nonlist"}
        /\ ret.op \in {"enqueue", "sync"})
    => /\ ret.st = "returned"
       /\ ret.op = "enqueue"
          => /\ PersistedQueue.t = "list"
             /\ PersistedQueue.l # <<>>
             /\ PersistedQueue.l[Len(PersistedQueue.l)]
                  = PyDict(normalize_entry(enqueued[Len(enqueued)]))

\* C10: a pass over the single entry InsMin against a store that is not
\* locked returns (1, 0), leaves an empty queue and a case row created by
\* the entry's submitter.
C10_HealthyStoreScenario ==
    (SyncReturned /\ loaded = <<PyDict(normalize_entry(InsMin))>>
        /\ Count(log, "transient") = 0)
    => /\ ret.applied = 1 /\ ret.remaining = 0
       /\ PersistedQueue = PyList(<<>>)
       /\ \E row \in cases :
             /\ row["created_by"] = InsMin["submitter"]
             /\ row["device_name"] = InsMin["device_name"]

\* the entry on_save queues for a form and a user, as a load returns it
QueuedOnSave(form, username) ==
    PyDict(normalize_entry(on_save_entry(form, username)))

\* C11: when the store raises in CreateTab.on_save, the handler ends without
\* an exception and the persisted queue is the queue from before followed by
\* one insert_case entry with the entered values; a later pass over that one
\* entry against a store that is not locked returns (1, 0), leaves the
\* persisted queue empty and has added exactly one case when it returns,
\* which has the entered values and status 'In Reparatur'.
C11_OfflineCaptureAndReplay ==
    /\ (pc = "idle" /\ lastUi.handler = "on_save" /\ lastUi.path = "offline")
       => LET e == QueuedOnSave(lastUi.form, session.username)
              before == load_from(liveBefore, bak, TRUE).value
          IN  /\ ret = Result("enqueue", "returned", 0, 0, "")
              /\ before.t = "list"
              /\ PersistedQueue = PyList(Append(before.l, e))
              /\ Get(e.d, "type") = PyStr("insert_case")
              /\ Get(e.d, "clinic") = PyStr(lastUi.form.clinic)
              /\ Get(e.d, "device_name") = PyStr(lastUi.form.device)
    /\ \A c \in FormClinics, u \in Range(users) :
          LET e == QueuedOnSave(Form(c, "Endoscope"), u.username)
              new == cases \ casesBefore
          IN  (SyncReturned /\ win = "syncing" /\ loaded = <<e>>
                  /\ Count(log, "transient") = 0)
              => /\ ret.applied = 1 /\ ret.remaining = 0
                 /\ PersistedQueue = PyList(<<>>)
                 /\ casesBefore \subseteq cases
                 /\ Cardinality(new) = 1
                 /\ \A row \in new :
                       /\ row["status"] = PyStr(STATUS_OPEN)
                       /\ \A k \in DOMAIN row \ {"id", "status", "closed_by"} :
                             row[k] = Get(e.d, k)

\* C11: a pass has replayed the one entry an offline on_save had queued, and
\* the store has gained a case.
C11_Witness ==
    /\ SyncReturned /\ win = "syncing" /\ log = <<"ok">>
    /\ \E c \in FormClinics, u \in Range(users) :
          loaded = <<QueuedOnSave(Form(c, "Endoscope"), u.username)>>
    /\ Cardinality(cases \ casesBefore) = 1

\* C12: normalizing a normalized entry changes nothing, for entries of every
\* type and every combination of present, empty, null and absent actor
\* fields.
C12_IdempotentNormalization ==
    \A k \in 2 .. Len(results) : results[k] = results[1]

\* C12: an insert without created_by whose user field is the first that is
\* set has been normalized twice, and created_by was derived from it.
C12_Witness ==
    /\ Len(results) = 2
    /\ Get(arg, "type") = PyStr("insert_case")
    /\ "created_by" \notin DOMAIN arg
    /\ Get(arg, "submitter") = PyStr("") /\ "username" \notin DOMAIN arg
    /\ Get(arg, "user") = PyStr("A")
    /\ results[1]["created_by"] = PyStr("A")

\* C13: a pass that finds no queue file, or a queue file that holds the
\* empty list, returns (0, 0) at once: it issues no statement on the store
\* and leaves the store, the queue file and its directory as they are.
C13_EmptyQueueNoOp ==
    [][(pc = "idle" /\ nSync' = nSync + 1
           /\ (~live.exists \/ live.text = json_dump(<<>>)))
       => /\ pc' = "idle"
          /\ ret' = Result("sync", "returned", 0, 0, "")
          /\ storeOps' = <<>>
          /\ cases' = cases /\ nextId' = nextId /\ audit_log' = audit_log
          /\ live' = live /\ bak' = bak /\ tmp' = tmp
          /\ dirExists' = dirExists]_vars

\* C13: a pass has returned (0, 0) from a queue file that holds the empty
\* list, and the file is still there.
C13_Witness ==
    /\ pc = "idle" /\ ret = Result("sync", "returned", 0, 0, "")
    /\ load.src = "saved" /\ load.text = json_dump(<<>>)
    /\ live = File(json_dump(<<>>))

\* C14: the entries in the persisted queue are in the order of their
\* enqueue_write calls and are the entries those calls queued; a returned
\* enqueue_write has left the queue from before, followed by the new entry;
\* a pass hands the loaded items to the store in queue order.
C14_FifoOrder ==
    /\ (origin = "program" /\ PersistedQueue.t = "list")
       => /\ Len(liveTags) = Len(PersistedQueue.l)
          /\ \A j, k \in DOMAIN liveTags : j < k => liveTags[j] < liveTags[k]
          /\ \A k \in DOMAIN liveTags :
                /\ liveTags[k] \in DOMAIN enqueued
                /\ PersistedQueue.l[k]
                     = PyDict(normalize_entry(enqueued[liveTags[k]]))
    /\ (pc = "idle" /\ ret = Result("enqueue", "returned", 0, 0, ""))
       => LET before == load_from(liveBefore, bak, TRUE).value
          IN  /\ before.t = "list"
              /\ PersistedQueue
                   = PyList(Append(before.l,
                                   PyDict(normalize_entry(enqueued[Len(enqueued)]))))
    /\ Len(attempted) <= Len(loaded)
    /\ attempted = SubSeq(loaded, 1, Len(attempted))

\* C14: a pass over two entries kept both, the second enqueue_write has
\* returned before, and the queue file holds the two in their order.
C14_Witness ==
    /\ SyncReturned /\ Len(attempted) = 2 /\ ret.remaining = 2
    /\ liveTags = <<1, 2>>
    /\ enqueued[1] # enqueued[2]

\* a step of _save_buffer has failed and the exception has left the call
SaveRaised == pc \in SavePcs /\ pc' = "idle" /\ ret'.st = "raised"

C16_AdminSelfProtection ==
    (win = "open" /\ session.role = "Admin")
    => /\ session.user_id \in DOMAIN users
       /\ users[session.user_id].role = "Admin"

\* C16: the administrator has deleted another user and changed another
\* one, and the attempts on the own row were refused.
C16_Witness ==
    /\ win = "open" /\ session.role = "Admin"
    /\ lastUi.handler = "on_save_selected" /\ lastUi.path = "refused"
    /\ lastUi.id = session.user_id
    /\ 3 \notin DOMAIN users
    /\ users[2].role = "Admin"
    /\ users[session.user_id].role = "Admin"

\* C17: for a user who is not Admin and whose clinics text is not "ALL",
\* every row OpenTab shows has the status "In Reparatur" and a clinic that
\* is one of the names in the text.
C17_ClinicVisibility ==
    (win = "open" /\ session.role # "Admin"
     /\ session.clinics_csv # ALL_CLINICS_SENTINEL)
    => \A row \in openTable :
          /\ row["status"] = PyStr("In Reparatur")
          /\ \E k \in DOMAIN stripped_parts(session.clinics_csv) :
                row["clinic"] = PyStr(stripped_parts(session.clinics_csv)[k])

\* the window is open, no call is running and no callback is waiting
Quiet == win = "open" /\ pc = "idle" /\ timers = <<>>

\* the row of case id in the store
CaseRow(id) == CHOOSE row \in cases : row["id"] = PyInt(id)

\* the case is one the user of the session may see
InScope(row) == Allowed = PyNone \/ row["clinic"] \in Range(Allowed.l)

\* C18: a case on_save has just created has the status "In Reparatur" and
\* is listed by OpenTab; once marking it done has run, it has the status
\* "Abgeschlossen", is listed by DoneTab and not by OpenTab; once reopening
\* it has run, it has "In Reparatur" again, is listed by OpenTab and not by
\* DoneTab; whenever no handler or callback is under way, each case the user
\* may see is listed by exactly one of the two tabs.
C18_CaseLifecycle ==
    /\ (win = "open" /\ lastUi.handler = "on_save" /\ lastUi.path = "direct")
       => /\ CaseRow(lastUi.id)["status"] = PyStr("In Reparatur")
          /\ Listed(openTable, lastUi.id)
          /\ ~Listed(doneTable, lastUi.id)
    /\ (Quiet /\ lastUi.handler = "on_done_clicked" /\ lastUi.path = "direct")
       => /\ CaseRow(lastUi.id)["status"] = PyStr("Abgeschlossen")
          /\ Listed(doneTable, lastUi.id)
          /\ ~Listed(openTable, lastUi.id)
    /\ (Quiet /\ lastUi.handler = "on_reopen_clicked" /\ lastUi.path = "direct")
       => /\ CaseRow(lastUi.id)["status"] = PyStr("In Reparatur")
          /\ Listed(openTable, lastUi.id)
          /\ ~Listed(doneTable, lastUi.id)
    /\ Quiet
       => /\ openTable \cup doneTable \subseteq cases
          /\ \A row \in cases :
                InScope(row)
                => (row \in openTable) # (row \in doneTable)

\* C18: a case was created, marked done and reopened, and all callbacks
\* have run.
C18_Witness ==
    /\ Quiet
    /\ lastUi.handler = "on_reopen_clicked" /\ lastUi.path = "direct"
    /\ Len(audit_log) = 3
    /\ audit_log[1].action = "case_create"
    /\ Listed(openTable, lastUi.id)

\* C19: when the process has died during a pass after the first k loaded
\* entries were committed to the store (and none refused), the queue file
\* holds exactly the entries from position k+1 on.
C19_CrashMidBatch ==
    (/\ pc = "idle"
     /\ ret = Result("sync", "crashed", 0, 0, "")
     /\ Len(log) >= 1
     /\ \A k \in DOMAIN log : log[k] = "ok")
    => PersistedQueue = PyList(SubSeq(loaded, Len(log) + 1, Len(loaded)))

\* the entry lacks a field it cannot be applied without: id for update_case
\* and delete_case, clinic or device_name for insert_case
LacksRequired(e) ==
    /\ e.t = "dict"
    /\ "type" \in DOMAIN e.d
    /\ \/ /\ e.d["type"] \in {PyStr("update_case"), PyStr("delete_case")}
          /\ "id" \notin DOMAIN e.d
       \/ /\ e.d["type"] = PyStr("insert_case")
          /\ {"clinic", "device_name"} \ DOMAIN e.d # {}

\* C20: the apply of an entry that lacks a required field issues no
\* statement on the store handle, leaves the store as it is and is not
\* counted as applied.
C20_ValidationBeforeStore ==
    [][(/\ pc = "apply"
        /\ Len(log') = Len(log) + 1
        /\ LacksRequired(IterItems(entries)[i]))
       => /\ log'[Len(log')] # "ok"
          /\ storeOps'[Len(storeOps')] = <<>>
          /\ cases' = cases /\ nextId' = nextId /\ audit_log' = audit_log]_vars

\* the item the running pass applies next, normalized as the apply does
NextEntry == normalize_entry(IterItems(entries)[i].d)

\* a sync_apply step on an entry of type ty that did not meet a locked store
AppliesUnlocked(ty) ==
    /\ pc = "apply"
    /\ Len(log') = Len(log) + 1
    /\ log'[Len(log')] # "transient"
    /\ IterItems(entries)[i].t = "dict"
    /\ Get(NextEntry, "type") = PyStr(ty)

\* the row an INSERT gives that names exactly the columns that exist and
\* for which the entry has a field; the other columns take their default
InsertedRowByFields(entry) ==
    LET device_col == IF "device_name" \in cols THEN "device_name" ELSE "device"
        has(c) == IF c = device_col
                  THEN {"device_name", "device"} \cap DOMAIN entry # {}
                  ELSE c \in DOMAIN entry
        val(c) == IF c = device_col /\ "device_name" \in DOMAIN entry
                  THEN entry["device_name"]
                  ELSE IF c = device_col THEN entry["device"]
                  ELSE entry[c]
    IN  [c \in cols |->
           IF c = "id" THEN PyInt(nextId)
           ELSE IF has(c) THEN val(c)
           ELSE ColumnDefault(c)]

\* C21: the INSERT of an insert_case entry names exactly the columns that
\* exist and for which the entry has a field, so that a column without a
\* field takes the schema default: when the row so built satisfies the
\* constraints it is the row added; without a device column the apply fails
\* for good and the store is unchanged.
C21_InsertColumnSelection ==
    [][AppliesUnlocked("insert_case")
       => IF {"device_name", "device"} \cap cols = {}
          THEN log'[Len(log')] = "permanent" /\ cases' = cases
          ELSE RowAllowed(InsertedRowByFields(NextEntry))
               => /\ log'[Len(log')] = "ok"
                  /\ cases' = cases \cup {InsertedRowByFields(NextEntry)}]_vars

\* the fields of an update_case entry that are present and exist as columns
UpdateFields(entry) ==
    {"status", "date_returned", "closed_by"} \cap DOMAIN entry \cap cols

\* table cases after setting, on the row with the id of the entry, every
\* field of UpdateFields to the value the entry has for it
UpdatedRowsByFields(entry) ==
    {IF row["id"] = entry["id"]
     THEN [c \in DOMAIN row |->
             IF c \in UpdateFields(entry) THEN entry[c] ELSE row[c]]
     ELSE row : row \in cases}

\* C22: the apply of an update_case entry sets, on the row with the id of
\* the entry, exactly the fields among status, date_returned and closed_by
\* that the entry has (a null value included) and that exist as columns, and
\* changes nothing else; with no such field the store is unchanged and the
\* apply is a success.
C22_UpdateFieldSelection ==
    [][(AppliesUnlocked("update_case") /\ "id" \in DOMAIN NextEntry)
       => IF UpdateFields(NextEntry) = {}
          THEN log'[Len(log')] = "ok" /\ cases' = cases
          ELSE (\A row \in UpdatedRowsByFields(NextEntry) : RowAllowed(row))
               => /\ log'[Len(log')] = "ok"
                  /\ cases' = UpdatedRowsByFields(NextEntry)]_vars

\* C23: the apply of a delete_case entry removes the case row with the id
\* of the entry and succeeds, whether or not the audit record could be
\* written.
C23_DeleteNotBlockedByAudit ==
    [][(AppliesUnlocked("delete_case") /\ "id" \in DOMAIN NextEntry)
       => /\ log'[Len(log')] = "ok"
          /\ cases' = {row \in cases : row["id"] # NextEntry["id"]}]_vars

\* the fields created_by is derived from, in their order
FallbackOrder == <<"submitter", "username", "user", "owner">>

\* the fields of FallbackOrder that have a non-empty value in the entry
NonEmptyFallbacks(e) ==
    {k \in DOMAIN FallbackOrder : Truthy(Get(e, FallbackOrder[k]))}

\* the first of them
FirstFallback(e) ==
    FallbackOrder[CHOOSE k \in NonEmptyFallbacks(e) :
                     \A j \in NonEmptyFallbacks(e) : k <= j]

\* C24: normalizing an insert_case entry without a non-empty created_by
\* sets created_by to the first non-empty value among submitter, username,
\* user and owner and changes nothing else; when none of them is non-empty,
\* an entry without created_by stays without it; every other entry is
\* returned as it was.
C24_ActorDerivation ==
    Len(results) >= 1
    => IF Get(arg, "type") = PyStr("insert_case") /\ ~Truthy(Get(arg, "created_by"))
       THEN IF NonEmptyFallbacks(arg) # {}
            THEN results[1] = Put(arg, "created_by", arg[FirstFallback(arg)])
            ELSE /\ "created_by" \notin DOMAIN arg
                    => "created_by" \notin DOMAIN results[1]
                 /\ DOMAIN arg \subseteq DOMAIN results[1]
                 /\ \A k \in DOMAIN arg \ {"created_by"} : results[1][k] = arg[k]
       ELSE results[1] = arg

\* the items of a loaded queue that a pass with the outcomes lg keeps: all
\* but those applied, from item k on
RECURSIVE KeptFrom(_, _, _)
KeptFrom(items, lg, k) ==
    IF k > Len(items) THEN <<>>
    ELSE (IF k <= Len(lg) /\ lg[k] = "ok" THEN <<>> ELSE <<items[k]>>)
         \o KeptFrom(items, lg, k + 1)

Authenticated == nLogins' = nLogins + 1 /\ lastAuth'.user_id # 0

\* C26: for an existing user with at least 5 failed attempts within the
\* window, authenticate returns None whatever the password and records no
\* attempt; with fewer, the correct password is accepted, and the accepted
\* login deletes the failed attempts of the user.
C26_LoginLockout ==
    [][Authenticated
       => LET a == lastAuth'
              u == a.user_id
          IN  /\ a.recent >= MAX_FAILED_ATTEMPTS
                 => a.result = PyNone /\ login_attempts'[u] = login_attempts[u]
              /\ (a.recent < MAX_FAILED_ATTEMPTS /\ a.correct)
                 => /\ a.result = Creds(u)
                    /\ login_attempts'[u] = NoAttempts]_vars

\* C27: an apply error is treated as transient only if the store reported
\* busy or locked: an entry of a type that is not known, for which no
\* statement reaches the store, is a permanent failure whatever its type
\* string contains, so the pass goes on to the entries behind it.
C27_TransientOnlyFromStore ==
    \A k \in DOMAIN log :
       /\ log[k] = "transient" => storeOps[k] # <<>>
       /\ (attempted[k].t = "dict"
             /\ \A ty \in KnownTypes :
                   Get(normalize_entry(attempted[k].d), "type") # PyStr(ty))
          => /\ log[k] = "permanent"
             /\ (SyncReturned /\ k < Len(loaded)) => Len(attempted) > k

\* C28: for every pass that returns, the returned applied_count plus the
\* returned remaining_count is the number of entries the pass loaded, and
\* remaining_count is the length of the persisted queue after the call.
C28_ConservationOfEntries ==
    SyncReturned
    => /\ ret.applied + ret.remaining = Len(loaded)
       /\ PersistedQueue.t = "list"
       /\ ret.remaining = Len(PersistedQueue.l)

\* C28: a pass over two entries has applied the first and kept the second,
\* on which the store was locked.
C28_Witness ==
    /\ SyncReturned /\ Len(loaded) = 2
    /\ log = <<"ok", "transient">>
    /\ ret.applied = 1 /\ ret.remaining = 1

\* status, date_returned and closed_by of the case id among the rows
Lifecycle(rows, id) ==
    {[c \in {"status", "date_returned", "closed_by"} |-> row[c]] :
        row \in {r \in rows : r["id"] = PyInt(id)}}

\* C29: applying the update_case entry that a complete or reopen action
\* queued while the store raised leaves the case row with the status,
\* date_returned and closed_by the direct write of the same action would
\* have left; a replayed reopen clears closed_by and date_returned.
C29_ReplayEqualsDirect ==
    [][\A id \in 1 .. MaxCases :
          /\ (AppliesUnlocked("update_case") /\ NextEntry = on_reopen_entry(id))
             => Lifecycle(cases', id)
                  = Lifecycle(update_case_row(cases, id, "In Reparatur",
                                              PyNone, PyNone), id)
          /\ \A u \in Range(users) :
                (AppliesUnlocked("update_case")
                    /\ NextEntry = on_done_entry(id, u.username))
                => Lifecycle(cases', id)
                     = Lifecycle(update_case_row(cases, id, "Abgeschlossen",
                                                 PyStr(Today),
                                                 StrOrNone(u.username)), id)]_vars

\* the user may see the cases of clinic c: the clinic passes the scope
\* filter built from the role and the clinics text of the user
MaySee(user, c) ==
    LET allowed == clinics_of_user(user.role, user.clinics)
    IN  allowed = PyNone \/ PyStr(c) \in Range(allowed.l)

\* a db.delete_clinic call
ClinicDeleted ==
    /\ Len(audit_log') = Len(audit_log) + 1
    /\ audit_log'[Len(audit_log')].action = "clinic_delete"

\* C30: a user who is not Admin and whose clinics text is not 'ALL' may see
\* only cases of clinics named in the text; after db.delete_clinic no user
\* may see cases of more clinics than before, and a user whose list has
\* become empty may see none.
C30_ClinicRightsNeverWiden ==
    [][/\ \A u \in DOMAIN users', c \in SEED_CLINICS :
             (/\ users'[u].role # "Admin"
              /\ users'[u].clinics # ALL_CLINICS_SENTINEL
              /\ MaySee(users'[u], c))
             => \E k \in DOMAIN stripped_parts(users'[u].clinics) :
                   stripped_parts(users'[u].clinics)[k] = c
       /\ ClinicDeleted
          => \A u \in DOMAIN users, c \in SEED_CLINICS :
                /\ MaySee(users'[u], c) => MaySee(users[u], c)
                /\ (stripped_parts(users[u].clinics) # <<>>
                      /\ stripped_parts(users'[u].clinics) = <<>>)
                   => ~MaySee(users'[u], c)]_vars

====
